---- MODULE Spec2Model ----
(***************************************************************************)
(* Storage keys of the IBC module (crates/ibc/src/storage.rs).             *)
(*                                                                         *)
(* Strings are TLA+ strings, handled character by character with Len,      *)
(* SubSeq and \o, so that formatting a path, splitting it into segments    *)
(* and parsing identifiers back are computed and not assumed.              *)
(* A storage key is a sequence of segments; a segment is an address        *)
(* segment or a string segment.                                            *)
(***************************************************************************)
EXTENDS Integers, Sequences, FiniteSets, TLC

VARIABLES
    key,        \* the storage key under examination (<<>>: none yet)
    enc,        \* the encoder call that produced key: [type, args]
    edits,      \* push / drop / re-rooting steps applied to key after its making
    res,        \* the last decoder or predicate applied to key, with its result
    prevKey,    \* the key of the previous encoder call (two-call runs)
    prevEnc,    \* the previous encoder call
    hashed,     \* the token-hash calls made, in order: [fn, args, out]
    storage,    \* the key-value store read by get_limits: [key -> value]
    balances,   \* the token ledger: [<<token, owner>> -> amount]
    events,     \* the emitted events, in emission order
    pc,         \* position inside mint_tokens
    call,       \* the arguments and locals of the mint_tokens call in progress
    mutations,  \* the completed balance mutations, in order
    returns,    \* the returned mint_tokens calls with their results, in order
    limits      \* the last get_limits call: its arguments, reads and result

vars == <<key, enc, edits, res, prevKey, prevEnc, hashed, storage, balances,
          events, pc, call, mutations, returns, limits>>

codecVars == <<key, enc, edits, res, prevKey, prevEnc, hashed>>
ledgerVars == <<storage, balances, events, pc, call, mutations, returns, limits>>

-----------------------------------------------------------------------------
(* Bounds of the model *)

MaxSeq == 1          \* packet sequences range over 0..MaxSeq
MaxRevNumber == 1    \* revision numbers range over 0..MaxRevNumber
MaxRevHeight == 1    \* revision heights range over 0..MaxRevHeight
MaxEdits == 2        \* push / drop / re-rooting steps applied to one key
MaxAmount == 2       \* minted amounts range over 1..MaxAmount
MaxMints == 3        \* mint_tokens calls in one run
MaxLimit == 2        \* stored limits and defaults range over 1..MaxLimit

-----------------------------------------------------------------------------
(* Strings *)

CharAt(s, i) == SubSeq(s, i, i)

\* str::find of a one-character pattern: the first index, 0 when absent
FindChar(s, ch) ==
    LET hits == {i \in 1..Len(s) : CharAt(s, i) = ch}
    IN  IF hits = {} THEN 0 ELSE CHOOSE i \in hits : \A j \in hits : i <= j

\* the part of s after index j
After(s, j) == IF j >= Len(s) THEN "" ELSE SubSeq(s, j + 1, Len(s))

\* str::split(ch), as a sequence of strings
RECURSIVE Split(_, _)
Split(s, ch) ==
    LET j == FindChar(s, ch)
    IN  IF j = 0 THEN <<s>>
        ELSE <<SubSeq(s, 1, j - 1)>> \o Split(After(s, j), ch)

\* str::strip_suffix: Some(rest) or None
StripSuffix(s, suffix) ==
    IF Len(s) >= Len(suffix)
       /\ SubSeq(s, Len(s) - Len(suffix) + 1, Len(s)) = suffix
    THEN [some |-> TRUE, val |-> SubSeq(s, 1, Len(s) - Len(suffix))]
    ELSE [some |-> FALSE]

Digits == <<"0", "1", "2", "3", "4", "5", "6", "7", "8", "9">>

IsDigit(c) == \E d \in 1..10 : Digits[d] = c

DigitVal(c) == (CHOOSE d \in 1..10 : Digits[d] = c) - 1

\* Display of an unsigned integer
RECURSIVE FmtU64(_)
FmtU64(n) ==
    IF n < 10 THEN Digits[n + 1]
    ELSE FmtU64(n \div 10) \o Digits[(n % 10) + 1]

RECURSIVE DigitsVal(_, _)
DigitsVal(s, acc) ==
    IF s = "" THEN acc
    ELSE DigitsVal(After(s, 1), acc * 10 + DigitVal(CharAt(s, 1)))

\* u64::from_str: an optional "+", then one or more decimal digits
ParseU64(s) ==
    LET body == IF s # "" /\ CharAt(s, 1) = "+" THEN After(s, 1) ELSE s
    IN  IF body # "" /\ \A i \in 1..Len(body) : IsDigit(CharAt(body, i))
        THEN [ok |-> TRUE, val |-> DigitsVal(body, 0)]
        ELSE [ok |-> FALSE]

-----------------------------------------------------------------------------
(* Results *)

Ok(v) == [ok |-> TRUE, val |-> v]
InvalidKey == [ok |-> FALSE, err |-> "InvalidKey"]
StorageKeyError == [ok |-> FALSE, err |-> "StorageKey"]

-----------------------------------------------------------------------------
(* Addresses and key segments *)

\* Address::Internal(InternalAddress::Ibc)
IbcAddress == [kind |-> "Internal", id |-> "Ibc"]

\* another internal address, owner of a foreign storage namespace
MultitokenAddress == [kind |-> "Internal", id |-> "Multitoken"]

\* Display of an address: the human-readable part, a kind marker, the payload
AddressToString(a) ==
    "tnam1" \o (IF a.kind = "Internal" THEN "p" ELSE "q") \o a.id

AddressSeg(a) == [seg |-> "AddressSeg", addr |-> a]
StringSeg(s) == [seg |-> "StringSeg", str |-> s]

IsAddressSeg(x) == x.seg = "AddressSeg"
IsStringSeg(x) == x.seg = "StringSeg"

\* KeySeg::raw of a string segment
Raw(x) == x.str

\* Key::from(segment)
KeyFrom(x) == <<x>>

\* Key::push(segment)
KeyPush(k, x) == Append(k, x)

\* Key::join(other)
KeyJoin(k, other) == k \o other

\* Key::parse of namada_core: the path cut at every "/", each piece a string
\* segment; a path with an empty piece is malformed
KeyParse(path) ==
    LET parts == Split(path, "/")
    IN  IF \E i \in 1..Len(parts) : parts[i] = ""
        THEN StorageKeyError
        ELSE Ok([i \in 1..Len(parts) |-> StringSeg(parts[i])])

\* Result::expect on a key: the call panics on an error and returns no key
Expect(r) == IF r.ok THEN r.val ELSE <<>>

-----------------------------------------------------------------------------
(* Key encoders *)

ibc_key(path) ==
    LET parsed == KeyParse(path)
    IN  IF ~parsed.ok THEN parsed
        ELSE Ok(KeyJoin(KeyFrom(AddressSeg(IbcAddress)), parsed.val))

client_counter_key == Expect(ibc_key("clients" \o "/" \o "counter"))

connection_counter_key == Expect(ibc_key("connections" \o "/" \o "counter"))

channel_counter_key == Expect(ibc_key("channelEnds" \o "/" \o "counter"))

\* Display of the ICS-24 paths
ClientStatePath(c) == "clients/" \o c \o "/clientState"
ClientConsensusStatePath(c, n, h) ==
    "clients/" \o c \o "/consensusStates/" \o FmtU64(n) \o "-" \o FmtU64(h)
ClientConnectionPath(c) == "clients/" \o c \o "/connections"
ConnectionPath(n) == "connections/" \o n
PortPath(p) == "ports/" \o p
ChannelEndPath(p, ch) == "channelEnds/ports/" \o p \o "/channels/" \o ch
SeqSendPath(p, ch) == "nextSequenceSend/ports/" \o p \o "/channels/" \o ch
SeqRecvPath(p, ch) == "nextSequenceRecv/ports/" \o p \o "/channels/" \o ch
SeqAckPath(p, ch) == "nextSequenceAck/ports/" \o p \o "/channels/" \o ch
CommitmentPath(p, ch, s) ==
    "commitments/ports/" \o p \o "/channels/" \o ch \o "/sequences/" \o FmtU64(s)
ReceiptPath(p, ch, s) ==
    "receipts/ports/" \o p \o "/channels/" \o ch \o "/sequences/" \o FmtU64(s)
AckPath(p, ch, s) ==
    "acks/ports/" \o p \o "/channels/" \o ch \o "/sequences/" \o FmtU64(s)

client_state_key(c) == Expect(ibc_key(ClientStatePath(c)))

\* a height is a record [n |-> revision number, h |-> revision height]
consensus_state_key(c, height) ==
    Expect(ibc_key(ClientConsensusStatePath(c, height.n, height.h)))

\* consensus_state_prefix stripping "-0" and not "/0-0"
consensus_state_prefix_short_suffix(c) ==
    LET path == ClientConsensusStatePath(c, 0, 0)
        prefix == StripSuffix(path, "-0")
    IN  Expect(ibc_key(prefix.val))

consensus_state_prefix(c) ==
    LET path == ClientConsensusStatePath(c, 0, 0)
        prefix == StripSuffix(path, "/0-0")
    IN  Expect(ibc_key(prefix.val))

connection_key(n) == Expect(ibc_key(ConnectionPath(n)))

channel_key(p, ch) == Expect(ibc_key(ChannelEndPath(p, ch)))

client_connections_key(c) == Expect(ibc_key(ClientConnectionPath(c)))

port_key(p) == Expect(ibc_key(PortPath(p)))

next_sequence_send_key(p, ch) == Expect(ibc_key(SeqSendPath(p, ch)))

next_sequence_recv_key(p, ch) == Expect(ibc_key(SeqRecvPath(p, ch)))

\* next_sequence_ack_key built on the path of nextSequenceRecv
next_sequence_ack_key_recv_path(p, ch) == Expect(ibc_key(SeqRecvPath(p, ch)))

next_sequence_ack_key(p, ch) == Expect(ibc_key(SeqAckPath(p, ch)))

commitment_key(p, ch, s) == Expect(ibc_key(CommitmentPath(p, ch, s)))

receipt_key(p, ch, s) == Expect(ibc_key(ReceiptPath(p, ch, s)))

ack_key(p, ch, s) == Expect(ibc_key(AckPath(p, ch, s)))

client_update_timestamp_key(c) ==
    Expect(ibc_key("clients/" \o c \o "/update_timestamp"))

client_update_height_key(c) ==
    Expect(ibc_key("clients/" \o c \o "/update_height"))

ibc_trace_key_prefix(addr) ==
    LET prefix == KeyPush(KeyFrom(AddressSeg(IbcAddress)), StringSeg("ibc_trace"))
    IN  IF addr.some THEN KeyPush(prefix, StringSeg(addr.val)) ELSE prefix

ibc_trace_key(addr, token_hash) ==
    KeyPush(ibc_trace_key_prefix([some |-> TRUE, val |-> addr]),
            StringSeg(token_hash))

params_key == KeyPush(KeyFrom(AddressSeg(IbcAddress)), StringSeg("params"))

mint_limit_key(token) ==
    KeyPush(KeyPush(KeyFrom(AddressSeg(IbcAddress)), StringSeg("mint_limit")),
            StringSeg(AddressToString(token)))

mint_amount_key(token) ==
    KeyPush(KeyPush(KeyFrom(AddressSeg(IbcAddress)), StringSeg("mint")),
            StringSeg(AddressToString(token)))

throughput_limit_key(token) ==
    KeyPush(KeyPush(KeyFrom(AddressSeg(IbcAddress)),
                    StringSeg("throughput_limit")),
            StringSeg(AddressToString(token)))

deposit_prefix == KeyPush(KeyFrom(AddressSeg(IbcAddress)), StringSeg("deposit"))

deposit_key(token) == KeyPush(deposit_prefix, StringSeg(AddressToString(token)))

withdraw_prefix == KeyPush(KeyFrom(AddressSeg(IbcAddress)), StringSeg("withdraw"))

withdraw_key(token) == KeyPush(withdraw_prefix, StringSeg(AddressToString(token)))

-----------------------------------------------------------------------------
(* Identifier parsers (FromStr of the ICS-24 identifier types) *)

IdentifierChars ==
    "abcdefghijklmnopqrstuvwxyzABCDEFGHIJKLMNOPQRSTUVWXYZ0123456789._+-#[]<>"

\* ICS-24 identifier validation of the ibc crate: the characters are
\* alphanumeric or one of . _ + - # [ ] < > and the length is in lo..hi
\* (client 9..64, connection 10..64, channel 8..64, port 2..128)
ValidIdentifier(s, lo, hi) ==
    /\ Len(s) >= lo
    /\ Len(s) <= hi
    /\ \A i \in 1..Len(s) : FindChar(IdentifierChars, CharAt(s, i)) # 0

ClientIdFromStr(s) == IF ValidIdentifier(s, 9, 64) THEN Ok(s) ELSE InvalidKey

ConnectionIdFromStr(s) == IF ValidIdentifier(s, 10, 64) THEN Ok(s) ELSE InvalidKey

ChannelIdFromStr(s) == IF ValidIdentifier(s, 8, 64) THEN Ok(s) ELSE InvalidKey

PortIdFromStr(s) == IF ValidIdentifier(s, 2, 128) THEN Ok(s) ELSE InvalidKey

SequenceFromStr(s) ==
    LET n == ParseU64(s) IN IF n.ok THEN Ok(n.val) ELSE InvalidKey

\* Height::from_str of the ibc crate: "<revision number>-<revision height>" is
\* cut at the first "-" (split_once), both parts are parsed as u64, and
\* Height::new refuses a revision height of zero
HeightFromStr(s) ==
    LET j == FindChar(s, "-")
        n == ParseU64(SubSeq(s, 1, j - 1))
        h == ParseU64(After(s, j))
    IN  IF j = 0 \/ ~n.ok \/ ~h.ok THEN InvalidKey
        ELSE IF h.val = 0 THEN InvalidKey
        ELSE Ok([n |-> n.val, h |-> h.val])

-----------------------------------------------------------------------------
(* Key decoders *)

\* segments lo..hi of k are all string segments
AllStringSegs(k, lo, hi) == \A i \in lo..hi : IsStringSeg(k[i])

\* client_id matching exactly three segments
client_id_exact(k) ==
    IF /\ Len(k) = 3
       /\ IsAddressSeg(k[1])
       /\ AllStringSegs(k, 2, 3)
       /\ k[1].addr = IbcAddress
       /\ k[2].str = "clients"
    THEN ClientIdFromStr(Raw(k[3]))
    ELSE InvalidKey

client_id(k) ==
    IF /\ Len(k) >= 3
       /\ IsAddressSeg(k[1])
       /\ AllStringSegs(k, 2, 3)
       /\ k[1].addr = IbcAddress
       /\ k[2].str = "clients"
    THEN ClientIdFromStr(Raw(k[3]))
    ELSE InvalidKey

consensus_height(k) ==
    IF /\ Len(k) = 5
       /\ IsAddressSeg(k[1])
       /\ AllStringSegs(k, 2, 5)
       /\ k[1].addr = IbcAddress
       /\ k[2].str = "clients"
       /\ k[4].str = "consensusStates"
    THEN HeightFromStr(k[5].str)
    ELSE InvalidKey

\* connection_id with a rest pattern after the third segment
connection_id_rest(k) ==
    IF /\ Len(k) >= 3
       /\ IsAddressSeg(k[1])
       /\ AllStringSegs(k, 2, 3)
       /\ k[1].addr = IbcAddress
       /\ k[2].str = "connections"
    THEN ConnectionIdFromStr(Raw(k[3]))
    ELSE InvalidKey

connection_id(k) ==
    IF /\ Len(k) = 3
       /\ IsAddressSeg(k[1])
       /\ AllStringSegs(k, 2, 3)
       /\ k[1].addr = IbcAddress
       /\ k[2].str = "connections"
    THEN ConnectionIdFromStr(Raw(k[3]))
    ELSE InvalidKey

port_channel_id(k) ==
    IF /\ Len(k) = 6
       /\ IsAddressSeg(k[1])
       /\ AllStringSegs(k, 2, 6)
       /\ k[1].addr = IbcAddress
       /\ k[2].str \in {"channelEnds", "nextSequenceSend",
                        "nextSequenceRecv", "nextSequenceAck"}
       /\ k[3].str = "ports"
       /\ k[5].str = "channels"
    THEN LET port == PortIdFromStr(Raw(k[4]))
             channel == ChannelIdFromStr(Raw(k[6]))
         IN  IF ~port.ok THEN InvalidKey
             ELSE IF ~channel.ok THEN InvalidKey
             ELSE Ok(<<port.val, channel.val>>)
    ELSE InvalidKey

port_channel_sequence_id(k) ==
    IF /\ Len(k) = 8
       /\ IsAddressSeg(k[1])
       /\ AllStringSegs(k, 2, 8)
       /\ k[1].addr = IbcAddress
       /\ k[2].str \in {"commitments", "receipts", "acks"}
       /\ k[3].str = "ports"
       /\ k[5].str = "channels"
       /\ k[7].str = "sequences"
    THEN LET port == PortIdFromStr(Raw(k[4]))
             channel == ChannelIdFromStr(Raw(k[6]))
             seq == SequenceFromStr(Raw(k[8]))
         IN  IF ~port.ok THEN InvalidKey
             ELSE IF ~channel.ok THEN InvalidKey
             ELSE IF ~seq.ok THEN InvalidKey
             ELSE Ok(<<port.val, channel.val, seq.val>>)
    ELSE InvalidKey

\* port_id without the test of the "ports" label
port_id_any_label(k) ==
    IF /\ Len(k) >= 3
       /\ IsAddressSeg(k[1])
       /\ AllStringSegs(k, 2, 3)
       /\ k[1].addr = IbcAddress
    THEN PortIdFromStr(Raw(k[3]))
    ELSE InvalidKey

port_id(k) ==
    IF /\ Len(k) >= 3
       /\ IsAddressSeg(k[1])
       /\ AllStringSegs(k, 2, 3)
       /\ k[1].addr = IbcAddress
       /\ k[2].str = "ports"
    THEN PortIdFromStr(Raw(k[3]))
    ELSE InvalidKey

-----------------------------------------------------------------------------
(* Classification predicates *)

\* is_ibc_key accepting the address segment of any address
is_ibc_key_any_address(k) == IsAddressSeg(k[1])

\* indexes the first segment: the key must not be empty
is_ibc_key(k) == IsAddressSeg(k[1]) /\ k[1].addr = IbcAddress

None == [some |-> FALSE]
Some(v) == [some |-> TRUE, val |-> v]

is_ibc_trace_key(k) ==
    IF /\ Len(k) = 4
       /\ IsAddressSeg(k[1])
       /\ AllStringSegs(k, 2, 4)
    THEN IF k[1].addr = IbcAddress /\ k[2].str = "ibc_trace"
         THEN Some(<<k[3].str, k[4].str>>)
         ELSE None
    ELSE None

\* is_ibc_counter_key without the test of the "counter" segment
is_ibc_counter_key_any_last(k) ==
    /\ Len(k) = 3
    /\ IsAddressSeg(k[1])
    /\ AllStringSegs(k, 2, 3)
    /\ k[1].addr = IbcAddress
    /\ k[2].str \in {"clients", "connections", "channelEnds"}

is_ibc_counter_key(k) ==
    /\ Len(k) = 3
    /\ IsAddressSeg(k[1])
    /\ AllStringSegs(k, 2, 3)
    /\ k[1].addr = IbcAddress
    /\ k[2].str \in {"clients", "connections", "channelEnds"}
    /\ k[3].str = "counter"

-----------------------------------------------------------------------------
(* Inputs of the codec *)

ClientIds == {"07-tendermint-0", "consensusStates"}
ConnectionIds == {"connection-0", "clientState"}
PortIds == {"transfer", "channels"}
ChannelIds == {"channel-0", "sequences"}
Sequences == 0..MaxSeq
Heights == [n : 0..MaxRevNumber, h : 0..MaxRevHeight]
Tokens == {[kind |-> "Established", id |-> "nam"],
           [kind |-> "Internal", id |-> "ibctoken0a1b"]}
TraceOwners == {"tnam1qnam", "ibc_trace"}
TraceHashes == {"0a1b", "counter"}

\* segments pushed onto a key by its environment
PushSegs == {AddressSeg(IbcAddress), AddressSeg(MultitokenAddress),
             StringSeg("counter"), StringSeg("07-tendermint-0")}

NoKey == <<>>
NoCall == [type |-> "none", args |-> <<>>]
NoResult == [dec |-> "none"]

-----------------------------------------------------------------------------
(* Codec steps *)

\* an encoder call returns k: the first call of a run, or the second one right
\* after the first
Produce(k, type, args) ==
    /\ prevKey = NoKey
    /\ edits = 0
    /\ res = NoResult
    /\ k # NoKey
    /\ key' = k
    /\ enc' = [type |-> type, args |-> args]
    /\ prevKey' = key
    /\ prevEnc' = enc
    /\ UNCHANGED <<edits, res, hashed>>
    /\ UNCHANGED ledgerVars

ClientCounterKey == Produce(client_counter_key, "client_counter", <<>>)

ConnectionCounterKey == Produce(connection_counter_key, "connection_counter", <<>>)

ChannelCounterKey == Produce(channel_counter_key, "channel_counter", <<>>)

ClientStateKey ==
    \E c \in ClientIds : Produce(client_state_key(c), "client_state", <<c>>)

ConsensusStateKey ==
    \E c \in ClientIds, h \in Heights :
        Produce(consensus_state_key(c, h), "consensus_state", <<c, h>>)

ConsensusStatePrefix ==
    \E c \in ClientIds :
        Produce(consensus_state_prefix(c), "consensus_state_prefix", <<c>>)

ConnectionKey ==
    \E n \in ConnectionIds : Produce(connection_key(n), "connection", <<n>>)

ChannelKey ==
    \E p \in PortIds, ch \in ChannelIds :
        Produce(channel_key(p, ch), "channel", <<p, ch>>)

ClientConnectionsKey ==
    \E c \in ClientIds :
        Produce(client_connections_key(c), "client_connections", <<c>>)

PortKey == \E p \in PortIds : Produce(port_key(p), "port", <<p>>)

NextSequenceSendKey ==
    \E p \in PortIds, ch \in ChannelIds :
        Produce(next_sequence_send_key(p, ch), "next_sequence_send", <<p, ch>>)

NextSequenceRecvKey ==
    \E p \in PortIds, ch \in ChannelIds :
        Produce(next_sequence_recv_key(p, ch), "next_sequence_recv", <<p, ch>>)

NextSequenceAckKey ==
    \E p \in PortIds, ch \in ChannelIds :
        Produce(next_sequence_ack_key(p, ch), "next_sequence_ack", <<p, ch>>)

CommitmentKey ==
    \E p \in PortIds, ch \in ChannelIds, s \in Sequences :
        Produce(commitment_key(p, ch, s), "commitment", <<p, ch, s>>)

ReceiptKey ==
    \E p \in PortIds, ch \in ChannelIds, s \in Sequences :
        Produce(receipt_key(p, ch, s), "receipt", <<p, ch, s>>)

AckKey ==
    \E p \in PortIds, ch \in ChannelIds, s \in Sequences :
        Produce(ack_key(p, ch, s), "ack", <<p, ch, s>>)

ClientUpdateTimestampKey ==
    \E c \in ClientIds :
        Produce(client_update_timestamp_key(c), "client_update_timestamp", <<c>>)

ClientUpdateHeightKey ==
    \E c \in ClientIds :
        Produce(client_update_height_key(c), "client_update_height", <<c>>)

IbcTraceKeyPrefix ==
    \/ Produce(ibc_trace_key_prefix(None), "ibc_trace_prefix", <<>>)
    \/ \E a \in TraceOwners :
           Produce(ibc_trace_key_prefix(Some(a)), "ibc_trace_prefix", <<a>>)

IbcTraceKey ==
    \E a \in TraceOwners, h \in TraceHashes :
        Produce(ibc_trace_key(a, h), "ibc_trace", <<a, h>>)

ParamsKey == Produce(params_key, "params", <<>>)

MintLimitKey ==
    \E t \in Tokens : Produce(mint_limit_key(t), "mint_limit", <<t>>)

MintAmountKey ==
    \E t \in Tokens : Produce(mint_amount_key(t), "mint", <<t>>)

ThroughputLimitKey ==
    \E t \in Tokens : Produce(throughput_limit_key(t), "throughput_limit", <<t>>)

DepositPrefix == Produce(deposit_prefix, "deposit_prefix", <<>>)

DepositKey == \E t \in Tokens : Produce(deposit_key(t), "deposit", <<t>>)

WithdrawPrefix == Produce(withdraw_prefix, "withdraw_prefix", <<>>)

WithdrawKey == \E t \in Tokens : Produce(withdraw_key(t), "withdraw", <<t>>)

\* a key of one segment, not made by this module
RawKey ==
    /\ key = NoKey
    /\ \E x \in PushSegs : key' = KeyFrom(x)
    /\ enc' = [type |-> "raw", args |-> <<>>]
    /\ UNCHANGED <<edits, res, prevKey, prevEnc, hashed>>
    /\ UNCHANGED ledgerVars

\* the key under examination may be edited while no second encoder call was
\* made and no decoder has run
Editable ==
    /\ key # NoKey
    /\ prevKey = NoKey
    /\ res = NoResult
    /\ edits < MaxEdits

\* Key::push of one more segment
PushSeg ==
    /\ Editable
    /\ \E x \in PushSegs : key' = KeyPush(key, x)
    /\ edits' = edits + 1
    /\ UNCHANGED <<enc, res, prevKey, prevEnc, hashed>>
    /\ UNCHANGED ledgerVars

\* the key without its last segment: the prefix a scan is rooted at
DropLastSeg ==
    /\ Editable
    /\ Len(key) > 1
    /\ key' = SubSeq(key, 1, Len(key) - 1)
    /\ edits' = edits + 1
    /\ UNCHANGED <<enc, res, prevKey, prevEnc, hashed>>
    /\ UNCHANGED ledgerVars

\* the same path under the address of another module
Reroot ==
    /\ Editable
    /\ key' = [key EXCEPT ![1] = AddressSeg(MultitokenAddress)]
    /\ key' # key
    /\ edits' = edits + 1
    /\ UNCHANGED <<enc, res, prevKey, prevEnc, hashed>>
    /\ UNCHANGED ledgerVars

\* a decoder or predicate named dec is applied to the key and returns out
Apply(dec, out) ==
    /\ key # NoKey
    /\ prevKey = NoKey
    /\ res = NoResult
    /\ res' = [dec |-> dec, out |-> out]
    /\ UNCHANGED <<key, enc, edits, prevKey, prevEnc, hashed>>
    /\ UNCHANGED ledgerVars

ClientId == Apply("client_id", client_id(key))

ConsensusHeight == Apply("consensus_height", consensus_height(key))

ConnectionId == Apply("connection_id", connection_id(key))

PortChannelId == Apply("port_channel_id", port_channel_id(key))

PortChannelSequenceId ==
    Apply("port_channel_sequence_id", port_channel_sequence_id(key))

PortId == Apply("port_id", port_id(key))

IsIbcKey == Apply("is_ibc_key", is_ibc_key(key))

IsIbcTraceKey == Apply("is_ibc_trace_key", is_ibc_trace_key(key))

IsIbcCounterKey == Apply("is_ibc_counter_key", is_ibc_counter_key(key))

-----------------------------------------------------------------------------
(* The codec as a state machine *)

CodecInit ==
    /\ key = NoKey
    /\ enc = NoCall
    /\ edits = 0
    /\ res = NoResult
    /\ prevKey = NoKey
    /\ prevEnc = NoCall
    /\ hashed = <<>>

LedgerIdle ==
    /\ storage = <<>>
    /\ balances = <<>>
    /\ events = <<>>
    /\ pc = "idle"
    /\ call = NoCall
    /\ mutations = <<>>
    /\ returns = <<>>
    /\ limits = NoResult

Init == CodecInit /\ LedgerIdle

Next ==
    \/ ClientCounterKey
    \/ ConnectionCounterKey
    \/ ChannelCounterKey
    \/ ClientStateKey
    \/ ConsensusStateKey
    \/ ConsensusStatePrefix
    \/ ConnectionKey
    \/ ChannelKey
    \/ ClientConnectionsKey
    \/ PortKey
    \/ NextSequenceSendKey
    \/ NextSequenceRecvKey
    \/ NextSequenceAckKey
    \/ CommitmentKey
    \/ ReceiptKey
    \/ AckKey
    \/ ClientUpdateTimestampKey
    \/ ClientUpdateHeightKey
    \/ IbcTraceKeyPrefix
    \/ IbcTraceKey
    \/ ParamsKey
    \/ MintLimitKey
    \/ MintAmountKey
    \/ ThroughputLimitKey
    \/ DepositPrefix
    \/ DepositKey
    \/ WithdrawPrefix
    \/ WithdrawKey
    \/ RawKey
    \/ PushSeg
    \/ DropLastSeg
    \/ Reroot
    \/ ClientId
    \/ ConsensusHeight
    \/ ConnectionId
    \/ PortChannelId
    \/ PortChannelSequenceId
    \/ PortId
    \/ IsIbcKey
    \/ IsIbcTraceKey
    \/ IsIbcCounterKey

Spec == Init /\ [][Next]_vars

-----------------------------------------------------------------------------
(* Properties of the codec *)

\* the decoder named dec ran on a key exactly as its encoder returned it
Decoded(dec) == res.dec = dec /\ edits = 0

\* the decoder returned the identifier v
Returned(v) == res.out.ok /\ res.out.val = v

ChannelTypes ==
    {"channel", "next_sequence_send", "next_sequence_recv", "next_sequence_ack"}

PacketTypes == {"commitment", "receipt", "ack"}

\* the round trips of every decoder but consensus_height
RoundTripIds ==
    /\ (Decoded("client_id") /\ enc.type = "client_state")
           => Returned(enc.args[1])
    /\ (Decoded("connection_id") /\ enc.type = "connection")
           => Returned(enc.args[1])
    /\ (Decoded("port_channel_id") /\ enc.type \in ChannelTypes)
           => Returned(<<enc.args[1], enc.args[2]>>)
    /\ (Decoded("port_channel_sequence_id") /\ enc.type \in PacketTypes)
           => Returned(<<enc.args[1], enc.args[2], enc.args[3]>>)
    /\ (Decoded("port_id") /\ enc.type = "port")
           => Returned(enc.args[1])

\* C1 as stated: decoding the key of the matching encoder returns the encoded
\* identifier fields, for every identifier including sequence 0 and height 0-0
C1_RoundTripEveryHeight ==
    /\ RoundTripIds
    /\ (Decoded("consensus_height") /\ enc.type = "consensus_state")
           => Returned(enc.args[2])

\* C1, amended: decoding the key of the matching encoder returns the encoded
\* identifier fields, for every identifier including sequence 0 and every
\* height whose revision height is at least 1; the consensus-state key of a
\* height with revision height 0 (such as 0-0) is rejected with InvalidKey
C1_RoundTrip ==
    /\ RoundTripIds
    /\ (Decoded("consensus_height") /\ enc.type = "consensus_state")
           => IF enc.args[2].h = 0
              THEN res.out = InvalidKey
              ELSE Returned(enc.args[2])

\* a consensus-state key of revision number 0 was decoded back to its height
C1_Witness ==
    /\ Decoded("consensus_height")
    /\ enc.type = "consensus_state"
    /\ enc.args[2] = [n |-> 0, h |-> 1]
    /\ res.out.ok
    /\ key[5] = StringSeg("0-1")

\* the decoders that return identifiers
Decoders == {"client_id", "consensus_height", "connection_id",
             "port_channel_id", "port_channel_sequence_id", "port_id"}

\* the number of segments of the key of each decoder's entity
ExactCount(dec) ==
    CASE dec = "client_id" -> 4
      [] dec = "consensus_height" -> 5
      [] dec = "connection_id" -> 3
      [] dec = "port_channel_id" -> 6
      [] dec = "port_channel_sequence_id" -> 8
      [] dec = "port_id" -> 3

\* C2 as stated: every decoder returns InvalidKey for every key whose number of
\* segments differs from the exact count of its entity's encoding
C2_ExactCountEveryDecoder ==
    (res.dec \in Decoders /\ Len(key) # ExactCount(res.dec))
        => res.out = InvalidKey

\* C2, amended: consensus_height, connection_id, port_channel_id and
\* port_channel_sequence_id return InvalidKey for every key whose number of
\* segments is not exactly 5, 3, 6 and 8; client_id and port_id return
\* InvalidKey for every key of fewer than 3 segments, and on a longer key they
\* return what they return on its first three segments, ignoring the rest
C2_SegmentCounts ==
    /\ (/\ res.dec \in {"consensus_height", "connection_id",
                        "port_channel_id", "port_channel_sequence_id"}
        /\ Len(key) # ExactCount(res.dec))
           => res.out = InvalidKey
    /\ (res.dec \in {"client_id", "port_id"} /\ Len(key) < 3)
           => res.out = InvalidKey
    /\ (res.dec = "client_id" /\ Len(key) >= 3)
           => res.out = client_id(SubSeq(key, 1, 3))
    /\ (res.dec = "port_id" /\ Len(key) >= 3)
           => res.out = port_id(SubSeq(key, 1, 3))

\* port_id returned the port of a port key that carries a trailing segment
C2_Witness ==
    /\ res.dec = "port_id"
    /\ enc.type = "port"
    /\ Len(key) = 4
    /\ Returned(enc.args[1])

\* the encoder types whose keys each decoder accepts
Family(dec) ==
    CASE dec = "client_id" ->
             {"client_state", "consensus_state", "consensus_state_prefix",
              "client_connections", "client_update_timestamp",
              "client_update_height"}
      [] dec = "consensus_height" -> {"consensus_state"}
      [] dec = "connection_id" -> {"connection"}
      [] dec = "port_channel_id" -> ChannelTypes
      [] dec = "port_channel_sequence_id" -> PacketTypes
      [] dec = "port_id" -> {"port"}

\* the entity types each decoder is the decoder of
Entity(dec) ==
    IF dec = "client_id" THEN {"client_state"} ELSE Family(dec)

\* the prefix forms, which are not entity types
PrefixTypes == {"consensus_state_prefix", "ibc_trace_prefix",
                "deposit_prefix", "withdraw_prefix"}

\* C3 as stated: a decoder applied to the key of another entity type with the
\* same number of segments returns InvalidKey, never an identifier
C3_NoConfusionSameCount ==
    (/\ res.dec \in Decoders
     /\ edits = 0
     /\ enc.type \notin Entity(res.dec)
     /\ enc.type \notin PrefixTypes
     /\ Len(key) = ExactCount(res.dec))
        => res.out = InvalidKey

\* C3, amended: a decoder applied to the key of an encoder outside its family
\* returns InvalidKey, whatever the number of segments, and so does every
\* decoder on a key whose first segment is not the IBC address; the family of
\* client_id is every key under clients/<client id> (client state, consensus
\* state and its prefix, client connections, update timestamp and height),
\* which it decodes to the client id
C3_NoConfusion ==
    /\ (/\ res.dec \in Decoders
        /\ edits = 0
        /\ enc.type \notin Family(res.dec))
           => res.out = InvalidKey
    /\ (res.dec \in Decoders /\ key[1] # AddressSeg(IbcAddress))
           => res.out = InvalidKey
    /\ (/\ Decoded("client_id")
        /\ enc.type \in Family("client_id")
        /\ enc.type # "client_state")
           => Returned(enc.args[1])

\* connection_id rejected the connection counter key, which has the segment
\* count and the label of a connection key
C3_Witness ==
    /\ Decoded("connection_id")
    /\ enc.type = "connection_counter"
    /\ Len(key) = ExactCount("connection_id")
    /\ res.out = InvalidKey

\* C4: two encoder calls return the same key only if they are calls of the
\* same encoder with the same identifier fields
C4_EncoderInjectivity ==
    (prevKey # NoKey /\ key = prevKey) => enc = prevEnc

\* a connection key was made after the connection counter key, and differs
C4_Witness ==
    /\ prevKey # NoKey
    /\ prevEnc.type = "connection_counter"
    /\ enc.type = "connection"
    /\ Len(key) = Len(prevKey)
    /\ key # prevKey

\* p is a strict prefix of the segment sequence k
IsStrictPrefix(p, k) == Len(p) < Len(k) /\ SubSeq(k, 1, Len(p)) = p

\* C8: consensus_state_prefix(c) is a strict prefix of consensus_state_key(c, h)
\* for every height h, and it is <ibc>/clients/<c>/consensusStates, the key of
\* height 0-0 without its last segment "0-0"
C8_ConsensusStatePrefix ==
    /\ (enc.type = "consensus_state" /\ edits = 0)
           => IsStrictPrefix(consensus_state_prefix(enc.args[1]), key)
    /\ (enc.type = "consensus_state_prefix" /\ edits = 0)
           => LET zero == consensus_state_key(enc.args[1], [n |-> 0, h |-> 0])
              IN  /\ key = <<AddressSeg(IbcAddress), StringSeg("clients"),
                            StringSeg(enc.args[1]), StringSeg("consensusStates")>>
                  /\ zero = KeyPush(key, StringSeg("0-0"))

\* a consensus-state key of a height other than 0-0 was made, one segment
\* longer than the prefix of its client
C8_Witness ==
    /\ enc.type = "consensus_state"
    /\ edits = 0
    /\ enc.args[2] = [n |-> 1, h |-> 1]
    /\ Len(key) = Len(consensus_state_prefix(enc.args[1])) + 1

\* k is <ibc>/ibc_trace/<owner>/<hash>
IsTraceShape(k) ==
    /\ Len(k) = 4
    /\ IsStringSeg(k[3])
    /\ IsStringSeg(k[4])
    /\ k = ibc_trace_key(k[3].str, k[4].str)

\* C9: is_ibc_trace_key returns (owner, hash) exactly on the 4-segment keys
\* <ibc>/ibc_trace/<owner>/<hash> and nothing on every other key, the prefix
\* forms included; is_ibc_counter_key is true exactly on the three counter keys
C9_Classification ==
    /\ res.dec = "is_ibc_trace_key" =>
           /\ res.out = IF IsTraceShape(key)
                        THEN Some(<<key[3].str, key[4].str>>)
                        ELSE None
           /\ (edits = 0 /\ enc.type = "ibc_trace")
                  => res.out = Some(<<enc.args[1], enc.args[2]>>)
           /\ (edits = 0 /\ enc.type = "ibc_trace_prefix") => res.out = None
    /\ res.dec = "is_ibc_counter_key" =>
           res.out = (key \in {client_counter_key, connection_counter_key,
                               channel_counter_key})

\* is_ibc_trace_key returned nothing on the prefix form with an owner
C9_Witness ==
    /\ Decoded("is_ibc_trace_key")
    /\ enc.type = "ibc_trace_prefix"
    /\ Len(key) = 3
    /\ res.out = None

\* C10: is_ibc_key is true exactly when the first segment of the key is the
\* segment of the IBC address, whatever follows it, and so it is true of every
\* key returned by an encoder of this module
C10_NamespaceGuard ==
    res.dec = "is_ibc_key" =>
        /\ res.out = (key[1] = AddressSeg(IbcAddress))
        /\ (edits = 0 /\ enc.type # "raw") => res.out = TRUE

\* is_ibc_key was false of a key rooted at another module's address with the
\* path of an IBC key
C10_Witness ==
    /\ res.dec = "is_ibc_key"
    /\ enc.type = "client_state"
    /\ key[1] = AddressSeg(MultitokenAddress)
    /\ Len(key) = 4
    /\ res.out = FALSE

-----------------------------------------------------------------------------
(* SHA-256 (the sha2 crate), computed on bytes 0..255; a 32-bit word is the  *)
(* pair <<high 16 bits, low 16 bits>>                                        *)

\* the ASCII characters from code 32 to code 126, in order; the places of the
\* double quote (34), the backslash (92) and the grave accent (96) hold a
\* space, which is found at code 32 first, so that these three characters
\* have no code here
AsciiChars ==
    " ! #$%&'()*+,-./0123456789:;<=>?@ABCDEFGHIJKLMNOPQRSTUVWXYZ[ ]^_ "
    \o "abcdefghijklmnopqrstuvwxyz{|}~"

\* str::as_bytes (AsRef<[u8]>) on a string of these characters: in UTF-8 each
\* is the one byte of its code
AsBytes(s) == [i \in 1..Len(s) |-> 31 + FindChar(AsciiChars, CharAt(s, i))]

\* exclusive or of two 4-bit numbers a and b, at [a + 1][b + 1]
XorNibble ==
    <<<<0, 1, 2, 3, 4, 5, 6, 7, 8, 9, 10, 11, 12, 13, 14, 15>>,
      <<1, 0, 3, 2, 5, 4, 7, 6, 9, 8, 11, 10, 13, 12, 15, 14>>,
      <<2, 3, 0, 1, 6, 7, 4, 5, 10, 11, 8, 9, 14, 15, 12, 13>>,
      <<3, 2, 1, 0, 7, 6, 5, 4, 11, 10, 9, 8, 15, 14, 13, 12>>,
      <<4, 5, 6, 7, 0, 1, 2, 3, 12, 13, 14, 15, 8, 9, 10, 11>>,
      <<5, 4, 7, 6, 1, 0, 3, 2, 13, 12, 15, 14, 9, 8, 11, 10>>,
      <<6, 7, 4, 5, 2, 3, 0, 1, 14, 15, 12, 13, 10, 11, 8, 9>>,
      <<7, 6, 5, 4, 3, 2, 1, 0, 15, 14, 13, 12, 11, 10, 9, 8>>,
      <<8, 9, 10, 11, 12, 13, 14, 15, 0, 1, 2, 3, 4, 5, 6, 7>>,
      <<9, 8, 11, 10, 13, 12, 15, 14, 1, 0, 3, 2, 5, 4, 7, 6>>,
      <<10, 11, 8, 9, 14, 15, 12, 13, 2, 3, 0, 1, 6, 7, 4, 5>>,
      <<11, 10, 9, 8, 15, 14, 13, 12, 3, 2, 1, 0, 7, 6, 5, 4>>,
      <<12, 13, 14, 15, 8, 9, 10, 11, 4, 5, 6, 7, 0, 1, 2, 3>>,
      <<13, 12, 15, 14, 9, 8, 11, 10, 5, 4, 7, 6, 1, 0, 3, 2>>,
      <<14, 15, 12, 13, 10, 11, 8, 9, 6, 7, 4, 5, 2, 3, 0, 1>>,
      <<15, 14, 13, 12, 11, 10, 9, 8, 7, 6, 5, 4, 3, 2, 1, 0>>>>

\* conjunction of two 4-bit numbers a and b, at [a + 1][b + 1]
AndNibble ==
    <<<<0, 0, 0, 0, 0, 0, 0, 0, 0, 0, 0, 0, 0, 0, 0, 0>>,
      <<0, 1, 0, 1, 0, 1, 0, 1, 0, 1, 0, 1, 0, 1, 0, 1>>,
      <<0, 0, 2, 2, 0, 0, 2, 2, 0, 0, 2, 2, 0, 0, 2, 2>>,
      <<0, 1, 2, 3, 0, 1, 2, 3, 0, 1, 2, 3, 0, 1, 2, 3>>,
      <<0, 0, 0, 0, 4, 4, 4, 4, 0, 0, 0, 0, 4, 4, 4, 4>>,
      <<0, 1, 0, 1, 4, 5, 4, 5, 0, 1, 0, 1, 4, 5, 4, 5>>,
      <<0, 0, 2, 2, 4, 4, 6, 6, 0, 0, 2, 2, 4, 4, 6, 6>>,
      <<0, 1, 2, 3, 4, 5, 6, 7, 0, 1, 2, 3, 4, 5, 6, 7>>,
      <<0, 0, 0, 0, 0, 0, 0, 0, 8, 8, 8, 8, 8, 8, 8, 8>>,
      <<0, 1, 0, 1, 0, 1, 0, 1, 8, 9, 8, 9, 8, 9, 8, 9>>,
      <<0, 0, 2, 2, 0, 0, 2, 2, 8, 8, 10, 10, 8, 8, 10, 10>>,
      <<0, 1, 2, 3, 0, 1, 2, 3, 8, 9, 10, 11, 8, 9, 10, 11>>,
      <<0, 0, 0, 0, 4, 4, 4, 4, 8, 8, 8, 8, 12, 12, 12, 12>>,
      <<0, 1, 0, 1, 4, 5, 4, 5, 8, 9, 8, 9, 12, 13, 12, 13>>,
      <<0, 0, 2, 2, 4, 4, 6, 6, 8, 8, 10, 10, 12, 12, 14, 14>>,
      <<0, 1, 2, 3, 4, 5, 6, 7, 8, 9, 10, 11, 12, 13, 14, 15>>>>

\* the initial hash value
Sha256InitialState ==
    <<<<27145, 58983>>, <<47975, 44677>>, <<15470, 62322>>, <<42319, 62778>>,
      <<20750, 21119>>, <<39685, 26764>>, <<8067, 55723>>, <<23520, 52505>>>>

\* the round constants
Sha256RoundConstants ==
    <<<<17034, 12184>>, <<28983, 17553>>, <<46528, 64463>>, <<59829, 56229>>,
      <<14678, 49755>>, <<23025, 4593>>, <<37439, 33444>>, <<43804, 24277>>,
      <<55303, 43672>>, <<4739, 23297>>, <<9265, 34238>>, <<21772, 32195>>,
      <<29374, 23924>>, <<32990, 45566>>, <<39900, 1703>>, <<49563, 61812>>,
      <<58523, 27073>>, <<61374, 18310>>, <<4033, 40390>>, <<9228, 41420>>,
      <<11753, 11375>>, <<19060, 33962>>, <<23728, 43484>>, <<30457, 35034>>,
      <<38974, 20818>>, <<43057, 50797>>, <<45059, 10184>>, <<48985, 32711>>,
      <<50912, 3059>>, <<54695, 37191>>, <<1738, 25425>>, <<5161, 10599>>,
      <<10167, 2693>>, <<11803, 8504>>, <<19756, 28156>>, <<21304, 3347>>,
      <<25866, 29524>>, <<30314, 2747>>, <<33218, 51502>>, <<37490, 11397>>,
      <<41663, 59553>>, <<43034, 26187>>, <<49739, 35696>>, <<51052, 20899>>,
      <<53650, 59417>>, <<54937, 1572>>, <<62478, 13701>>, <<4202, 41072>>,
      <<6564, 49430>>, <<7735, 27656>>, <<10056, 30540>>, <<13488, 48309>>,
      <<14620, 3251>>, <<20184, 43594>>, <<23452, 51791>>, <<26670, 28659>>,
      <<29839, 33518>>, <<30885, 25455>>, <<33992, 30740>>, <<36039, 520>>,
      <<37054, 65530>>, <<42064, 27883>>, <<48889, 41975>>, <<50801, 30962>>>>

\* the compression function on the state h and one 64-byte block: the message
\* schedule, the 64 rounds, and the sum with the state before.  Schedule and
\* Rounds cut their range in two and compute the first half, as the element
\* of a set, before the second half starts.
Compress(h, block) ==
    LET Nibbles16(op, a, b) ==
            op[(a % 16) + 1][(b % 16) + 1]
            + 16 * op[((a \div 16) % 16) + 1][((b \div 16) % 16) + 1]
            + 256 * op[((a \div 256) % 16) + 1][((b \div 256) % 16) + 1]
            + 4096 * op[(a \div 4096) + 1][(b \div 4096) + 1]
        Xor(x, y) == <<Nibbles16(XorNibble, x[1], y[1]),
                       Nibbles16(XorNibble, x[2], y[2])>>
        And(x, y) == <<Nibbles16(AndNibble, x[1], y[1]),
                       Nibbles16(AndNibble, x[2], y[2])>>
        Not(x) == <<65535 - x[1], 65535 - x[2]>>
        \* u32::wrapping_add
        Add(x, y) ==
            LET lo == x[2] + y[2]
            IN  <<(x[1] + y[1] + (lo \div 65536)) % 65536, lo % 65536>>
        \* u32::rotate_right
        RotR(x, n) ==
            LET w == IF n >= 16 THEN <<x[2], x[1]>> ELSE x
                m == n % 16
            IN  <<(w[1] \div (2 ^ m)) + (w[2] % (2 ^ m)) * (2 ^ (16 - m)),
                  (w[2] \div (2 ^ m)) + (w[1] % (2 ^ m)) * (2 ^ (16 - m))>>
        \* x >> n, for n < 16
        ShR(x, n) ==
            <<x[1] \div (2 ^ n),
              (x[2] \div (2 ^ n)) + (x[1] % (2 ^ n)) * (2 ^ (16 - n))>>
        SmallSigma0(x) == Xor(Xor(RotR(x, 7), RotR(x, 18)), ShR(x, 3))
        SmallSigma1(x) == Xor(Xor(RotR(x, 17), RotR(x, 19)), ShR(x, 10))
        BigSigma0(x) == Xor(Xor(RotR(x, 2), RotR(x, 13)), RotR(x, 22))
        BigSigma1(x) == Xor(Xor(RotR(x, 6), RotR(x, 11)), RotR(x, 25))
        Ch(x, y, z) == Xor(And(x, y), And(Not(x), z))
        Maj(x, y, z) == Xor(Xor(And(x, y), And(x, z)), And(y, z))
        \* the 16 big-endian words of the block
        BlockWords ==
            [t \in 1..16 |-> <<block[4 * t - 3] * 256 + block[4 * t - 2],
                               block[4 * t - 1] * 256 + block[4 * t]>>]
        \* the schedule w with its words lo..hi appended
        RECURSIVE Schedule(_, _, _)
        Schedule(w, lo, hi) ==
            IF lo = hi
            THEN Append(w, Add(Add(SmallSigma1(w[lo - 2]), w[lo - 7]),
                               Add(SmallSigma0(w[lo - 15]), w[lo - 16])))
            ELSE LET mid == (lo + hi) \div 2
                 IN  CHOOSE out \in {Schedule(half, mid + 1, hi) :
                                        half \in {Schedule(w, lo, mid)}} : TRUE
        \* round t on the working variables v
        Round(v, w, t) ==
            LET t1 == Add(Add(Add(v[8], BigSigma1(v[5])),
                              Add(Ch(v[5], v[6], v[7]),
                                  Sha256RoundConstants[t])),
                          w[t])
                t2 == Add(BigSigma0(v[1]), Maj(v[1], v[2], v[3]))
            IN  <<Add(t1, t2), v[1], v[2], v[3],
                  Add(v[4], t1), v[5], v[6], v[7]>>
        \* rounds lo..hi, in order
        RECURSIVE Rounds(_, _, _, _)
        Rounds(v, w, lo, hi) ==
            IF lo = hi THEN Round(v, w, lo)
            ELSE LET mid == (lo + hi) \div 2
                 IN  CHOOSE out \in {Rounds(half, w, mid + 1, hi) :
                                        half \in {Rounds(v, w, lo, mid)}} : TRUE
    IN  CHOOSE out \in
            {<<Add(h[1], v[1]), Add(h[2], v[2]), Add(h[3], v[3]),
               Add(h[4], v[4]), Add(h[5], v[5]), Add(h[6], v[6]),
               Add(h[7], v[7]), Add(h[8], v[8])>> :
                v \in {Rounds(h, Schedule(BlockWords, 17, 64), 1, 64)}} : TRUE

\* Sha256::new(): a hasher is the bytes it was fed
Sha256New == <<>>

\* Digest::update
Sha256Update(hasher, bytes) == hasher \o bytes

\* Digest::finalize: the message is padded with 0x80, zeros up to 56 modulo
\* 64 and its length in bits as 8 big-endian bytes, compressed block after
\* block, and the eight state words are written out big-endian
Sha256Finalize(hasher) ==
    LET bits == 8 * Len(hasher)
        zeros == (119 - (Len(hasher) % 64)) % 64
        padded == hasher \o <<128>> \o [i \in 1..zeros |-> 0] \o <<0, 0, 0, 0>>
                      \o <<(bits \div 16777216) % 256, (bits \div 65536) % 256,
                           (bits \div 256) % 256, bits % 256>>
        RECURSIVE Blocks(_, _)
        Blocks(h, rest) ==
            IF Len(rest) = 0 THEN h
            ELSE Blocks(Compress(h, SubSeq(rest, 1, 64)),
                        SubSeq(rest, 65, Len(rest)))
        state == Blocks(Sha256InitialState, padded)
    IN  [i \in 1..32 |->
            LET x == state[((i - 1) \div 4) + 1]
                j == (i - 1) % 4
            IN  IF j = 0 THEN x[1] \div 256
                ELSE IF j = 1 THEN x[1] % 256
                ELSE IF j = 2 THEN x[2] \div 256
                ELSE x[2] % 256]

-----------------------------------------------------------------------------
(* The token hash *)

\* namada_core::address: the length of an IBC token hash, the length of a
\* SHA-256 digest
HASH_LEN == 20
SHA_HASH_LEN == 32

\* IbcTokenHash(output)
IbcTokenHash(output) == [hash |-> output]

\* calc_ibc_token_hash taking the last HASH_LEN bytes of the digest
calc_ibc_token_hash_last_bytes(denom) ==
    LET hash == Sha256Finalize(Sha256Update(Sha256New, AsBytes(denom)))
        input == SubSeq(hash, 1, SHA_HASH_LEN)
    IN  IbcTokenHash(SubSeq(input, SHA_HASH_LEN - HASH_LEN + 1, SHA_HASH_LEN))

\* calc_ibc_token_hash(denom): a new hasher is fed the bytes of denom and
\* finalized; output, HASH_LEN zeros, receives input[..HASH_LEN]
\* (copy_from_slice takes a source of the length of its destination)
calc_ibc_token_hash(denom) ==
    LET hash == Sha256Finalize(Sha256Update(Sha256New, AsBytes(denom)))
        input == SubSeq(hash, 1, SHA_HASH_LEN)
        output == [i \in 1..HASH_LEN |-> 0]
        slice == SubSeq(input, 1, HASH_LEN)
    IN  IbcTokenHash([i \in 1..Len(output) |-> slice[i]])

\* ibc_token(denom): Address::Internal(InternalAddress::IbcToken(hash))
ibc_token(denom) ==
    [kind |-> "Internal", id |-> "IbcToken",
     hash |-> calc_ibc_token_hash(denom)]

\* ibc_token_for_nft(class_id, token_id); the two identifiers are held as
\* the strings their Display writes
ibc_token_for_nft(class_id, token_id) ==
    ibc_token(class_id \o "/" \o token_id)

\* denomination traces, one of them longer than a SHA-256 block
Denoms ==
    {"uatom",
     "transfer/channel-0/uatom",
     "transfer/channel-0/UATOM",
     "nft-transfer/channel-0/kitty/7",
     "transfer/channel-0/transfer/channel-1/transfer/channel-2/transfer/channel-3/uatom"}

\* NFT class ids and token ids, differing in case and in white space
ClassIds == {"nft-transfer/channel-0/kitty", "nft-transfer/channel-0/Kitty"}
TokenIds == {"7", "7 "}

\* a call of one of the three functions; runs of two calls
HashCall(fn, args, out) ==
    /\ Len(hashed) < 2
    /\ hashed' = Append(hashed, [fn |-> fn, args |-> args, out |-> out])
    /\ UNCHANGED <<key, enc, edits, res, prevKey, prevEnc>>
    /\ UNCHANGED ledgerVars

CalcIbcTokenHash ==
    \E s \in Denoms :
        HashCall("calc_ibc_token_hash", <<s>>, calc_ibc_token_hash(s))

IbcToken == \E s \in Denoms : HashCall("ibc_token", <<s>>, ibc_token(s))

IbcTokenForNft ==
    \E c \in ClassIds, t \in TokenIds :
        HashCall("ibc_token_for_nft", <<c, t>>, ibc_token_for_nft(c, t))

HashInit == CodecInit /\ LedgerIdle

HashNext ==
    \/ CalcIbcTokenHash
    \/ IbcToken
    \/ IbcTokenForNft

HashSpec == HashInit /\ [][HashNext]_vars

-----------------------------------------------------------------------------
(* Properties of the token hash *)

\* the string whose hash a call asks for
Trace(c) ==
    IF c.fn = "ibc_token_for_nft" THEN c.args[1] \o "/" \o c.args[2]
    ELSE c.args[1]

\* the hash inside the value a call returned
HashOf(c) == IF c.fn = "calc_ibc_token_hash" THEN c.out.hash ELSE c.out.hash.hash

\* the SHA-256 digest of the bytes of a string
Digest(s) == Sha256Finalize(AsBytes(s))

\* C11: every call returns the hash made of the first 20 bytes of the 32-byte
\* SHA-256 digest of the bytes of its string, of length 20; ibc_token wraps
\* it in the internal IbcToken address and ibc_token_for_nft(class, token)
\* returns what ibc_token returns on the string class "/" token, unchanged in
\* case and white space; two calls on the same string return the same hash,
\* and two NFT calls on different strings return different addresses
C11_TokenHash ==
    /\ \A i \in 1..Len(hashed) :
          LET c == hashed[i]
              digest == Digest(Trace(c))
              hash == HashOf(c)
          IN  /\ Len(digest) = 32
              /\ Len(hash) = 20
              /\ \A k \in 1..20 : hash[k] = digest[k]
              /\ \A k \in 1..20 : hash[k] \in 0..255
              /\ c.fn # "calc_ibc_token_hash" =>
                    c.out = [kind |-> "Internal", id |-> "IbcToken",
                             hash |-> [hash |-> hash]]
    /\ \A i, j \in 1..Len(hashed) :
          /\ Trace(hashed[i]) = Trace(hashed[j]) =>
                HashOf(hashed[i]) = HashOf(hashed[j])
          /\ (/\ hashed[i].fn = "ibc_token_for_nft"
              /\ hashed[j].fn = "ibc_token_for_nft"
              /\ hashed[i].args # hashed[j].args) =>
                hashed[i].out # hashed[j].out

\* ibc_token on the trace of kitty/7 and ibc_token_for_nft on (kitty, 7) have
\* returned the same address, of the 20 bytes that begin the SHA-256 digest
\* of that trace
C11_Witness ==
    /\ Len(hashed) = 2
    /\ hashed[1].fn = "ibc_token"
    /\ hashed[1].args = <<"nft-transfer/channel-0/kitty/7">>
    /\ hashed[2].fn = "ibc_token_for_nft"
    /\ hashed[2].args = <<"nft-transfer/channel-0/kitty", "7">>
    /\ hashed[2].out = hashed[1].out
    /\ HashOf(hashed[2]) =
           <<125, 150, 237, 77, 46, 49, 160, 122, 1, 52,
                 60, 170, 70, 203, 45, 225, 58, 38, 233, 60>>

-----------------------------------------------------------------------------
(* Minting *)

MintTargets == {[kind |-> "Established", id |-> "alice"]}
Owners == MintTargets \cup {IbcAddress}
Amounts == 1..MaxAmount

\* token::mint_tokens(state, minter, token, target, amount): the balance of
\* target in token grows by amount
TokenMintTokens(bal, minter, token, target, amount) ==
    [bal EXCEPT ![<<token, target>>] = @ + amount]

\* token::read_balance(state, token, owner)
TokenReadBalance(bal, token, owner) == bal[<<token, owner>>]

\* Amount::change: the amount as a signed difference
Change(amount) == amount

\* the event with the minted amount in place of the read-back balance
MintEvent_amount_as_balance(token, target, post_balance, amount) ==
    [level |-> "Tx",
     descriptor |-> "mint-ibc-tokens",
     token |-> token,
     target |-> [internal |-> target],
     post_balance |-> Some(amount),
     diff |-> Change(amount)]

\* TokenEvent::BalanceChange emitted with the read-back balance as post-balance
\* and the minted amount as difference
MintEvent(token, target, post_balance, amount) ==
    [level |-> "Tx",
     descriptor |-> "mint-ibc-tokens",
     token |-> token,
     target |-> [internal |-> target],
     post_balance |-> Some(post_balance),
     diff |-> Change(amount)]

\* the call returns ret
Return(ret) ==
    returns' = Append(returns,
                      [target |-> call'.args[1], token |-> call'.args[2],
                       amount |-> call'.args[3], ret |-> ret,
                       emitted |-> Len(events') - call'.events0])

\* mint_tokens dropping the error of token::mint_tokens and going on
MintTokensCredit_error_dropped ==
    /\ pc = "idle"
    /\ Len(returns) < MaxMints
    /\ UNCHANGED <<events, storage, limits>>
    /\ \E target \in MintTargets, token \in Tokens, amount \in Amounts :
         /\ call' = [type |-> "mint_tokens",
                     args |-> <<target, token, amount>>,
                     events0 |-> Len(events),
                     post_balance |-> None]
         /\ \/ /\ balances' = TokenMintTokens(balances, IbcAddress, token,
                                              target, amount)
               /\ mutations' = Append(mutations,
                                      [token |-> token, target |-> target,
                                       amount |-> amount])
            \/ UNCHANGED <<balances, mutations>>
         /\ pc' = "read_balance"
         /\ UNCHANGED returns
    /\ UNCHANGED codecVars

\* mint_tokens is entered and token::mint_tokens credits the target, or fails
\* and its error is returned
MintTokensCredit ==
    /\ pc = "idle"
    /\ Len(returns) < MaxMints
    /\ UNCHANGED <<events, storage, limits>>
    /\ \E target \in MintTargets, token \in Tokens, amount \in Amounts :
         /\ call' = [type |-> "mint_tokens",
                     args |-> <<target, token, amount>>,
                     events0 |-> Len(events),
                     post_balance |-> None]
         /\ \/ /\ balances' = TokenMintTokens(balances, IbcAddress, token,
                                              target, amount)
               /\ mutations' = Append(mutations,
                                      [token |-> token, target |-> target,
                                       amount |-> amount])
               /\ pc' = "read_balance"
               /\ UNCHANGED returns
            \/ /\ pc' = "idle"
               /\ Return("MintError")
               /\ UNCHANGED <<balances, mutations>>
    /\ UNCHANGED codecVars

\* the balance of the target is read back, or the read fails and its error is
\* returned
MintTokensReadBalance ==
    /\ pc = "read_balance"
    /\ UNCHANGED <<balances, mutations, events, storage, limits>>
    /\ \/ /\ call' = [call EXCEPT !.post_balance =
                         Some(TokenReadBalance(balances, call.args[2],
                                               call.args[1]))]
          /\ pc' = "emit"
          /\ UNCHANGED returns
       \/ /\ pc' = "idle"
          /\ call' = call
          /\ Return("ReadError")
    /\ UNCHANGED codecVars

\* the event is emitted and Ok(()) is returned
MintTokensEmit ==
    /\ pc = "emit"
    /\ events' = Append(events, MintEvent(call.args[2], call.args[1],
                                          call.post_balance.val, call.args[3]))
    /\ pc' = "idle"
    /\ call' = call
    /\ Return("Ok")
    /\ UNCHANGED <<balances, mutations, storage, limits>>
    /\ UNCHANGED codecVars

MintInit ==
    /\ CodecInit
    /\ storage = <<>>
    /\ balances = [b \in Tokens \X Owners |-> 0]
    /\ events = <<>>
    /\ pc = "idle"
    /\ call = NoCall
    /\ mutations = <<>>
    /\ returns = <<>>
    /\ limits = NoResult

MintNext ==
    \/ MintTokensCredit
    \/ MintTokensReadBalance
    \/ MintTokensEmit

MintSpec == MintInit /\ [][MintNext]_vars

-----------------------------------------------------------------------------
(* Properties of minting *)

\* the sum of the amounts of calls 1..i of rs made for the token and target
RECURSIVE MintedUpTo(_, _, _, _)
MintedUpTo(rs, i, token, target) ==
    IF i = 0 THEN 0
    ELSE MintedUpTo(rs, i - 1, token, target)
         + (IF rs[i].token = token /\ rs[i].target = target
            THEN rs[i].amount ELSE 0)

AllSucceeded == \A i \in 1..Len(returns) : returns[i].ret = "Ok"

\* C6: starting from balance 0, after n successful mint_tokens calls exactly n
\* events were emitted, in call order, the i-th with descriptor
\* "mint-ibc-tokens", level Tx, the token and target of call i, the sum of the
\* amounts minted so far for that token and target as post-balance, and the
\* amount of call i as difference
C6_MintEventSequence ==
    (pc = "idle" /\ AllSucceeded) =>
        /\ Len(events) = Len(returns)
        /\ \A i \in 1..Len(returns) :
             events[i] =
                 [level |-> "Tx",
                  descriptor |-> "mint-ibc-tokens",
                  token |-> returns[i].token,
                  target |-> [internal |-> returns[i].target],
                  post_balance |->
                      Some(MintedUpTo(returns, i, returns[i].token,
                                      returns[i].target)),
                  diff |-> returns[i].amount]

\* two mints of 2 and then 1 of one token to one target succeeded; the second
\* event carries post-balance 3 and difference 1
C6_Witness ==
    /\ pc = "idle"
    /\ AllSucceeded
    /\ Len(returns) = 2
    /\ returns[1].token = returns[2].token
    /\ returns[1].amount = 2
    /\ returns[2].amount = 1
    /\ events[2].post_balance = Some(3)
    /\ events[2].diff = 1

\* C7: inside mint_tokens the balance mutation comes before the read-back and
\* the read-back before the emission; a call whose token mint failed returns
\* that error having emitted nothing; every emitted event is preceded by its
\* completed balance mutation
C7_MintFailureOrdering ==
    /\ pc = "read_balance" =>
           /\ Len(mutations) > 0
           /\ mutations[Len(mutations)] =
                  [token |-> call.args[2], target |-> call.args[1],
                   amount |-> call.args[3]]
           /\ call.post_balance = None
           /\ Len(events) = call.events0
    /\ pc = "emit" =>
           /\ call.post_balance.some
           /\ Len(events) = call.events0
    /\ \A i \in 1..Len(returns) :
           /\ returns[i].ret = "MintError" => returns[i].emitted = 0
           /\ returns[i].ret = "ReadError" => returns[i].emitted = 0
           /\ returns[i].ret = "Ok" => returns[i].emitted = 1
    /\ Len(events) <= Len(mutations)
    /\ \A i \in 1..Len(events) :
           \E j \in i..Len(mutations) :
               /\ mutations[j].token = events[i].token
               /\ mutations[j].target = events[i].target.internal
               /\ mutations[j].amount = events[i].diff

\* a call returned the error of the token mint after an earlier call had
\* succeeded, and still only one event exists
C7_Witness ==
    /\ pc = "idle"
    /\ Len(returns) = 2
    /\ returns[1].ret = "Ok"
    /\ returns[2].ret = "MintError"
    /\ Len(events) = 1
    /\ Len(mutations) = 1

-----------------------------------------------------------------------------
(* Limits *)

LimitValues == 1..MaxLimit

\* IbcParameters
IbcParameters == [default_mint_limit : LimitValues,
                  default_per_epoch_throughput_limit : LimitValues]

\* the storage error of a failed read of key k
StorageError(k) == [ok |-> FALSE, err |-> "StorageError", key |-> k]

\* the abort of Option::expect on None
Panic == [ok |-> FALSE, err |-> "panic"]

\* StorageRead::read: Ok(Some(value)), Ok(None), or a storage error when the
\* read of that key fails
StorageReadKey(st, k, failing) ==
    IF k \in failing THEN StorageError(k)
    ELSE IF k \in DOMAIN st THEN Ok(Some(st[k]))
    ELSE Ok(None)

\* Option::unwrap_or
UnwrapOr(opt, default) == IF opt.some THEN opt.val ELSE default

\* get_limits with the default mint limit used for both components
get_limits_one_default(st, token, failing) ==
    LET mlk == mint_limit_key(token)
        tlk == throughput_limit_key(token)
        ml == StorageReadKey(st, mlk, failing)
        tl == StorageReadKey(st, tlk, failing)
        ps == StorageReadKey(st, params_key, failing)
    IN  IF ~ml.ok THEN [out |-> ml, reads |-> <<mlk>>]
        ELSE IF ~tl.ok THEN [out |-> tl, reads |-> <<mlk, tlk>>]
        ELSE IF ml.val.some /\ tl.val.some
        THEN [out |-> Ok(<<ml.val.val, tl.val.val>>), reads |-> <<mlk, tlk>>]
        ELSE IF ~ps.ok THEN [out |-> ps, reads |-> <<mlk, tlk, params_key>>]
        ELSE IF ~ps.val.some
        THEN [out |-> Panic,
              reads |-> <<mlk, tlk, params_key>>]
        ELSE [out |-> Ok(<<UnwrapOr(ml.val, ps.val.val.default_mint_limit),
                           UnwrapOr(tl.val, ps.val.val.default_mint_limit)>>),
              reads |-> <<mlk, tlk, params_key>>]

\* get_limits reading the parameters before it looks at the two overrides
get_limits_eager_params(st, token, failing) ==
    LET mlk == mint_limit_key(token)
        tlk == throughput_limit_key(token)
        ml == StorageReadKey(st, mlk, failing)
        tl == StorageReadKey(st, tlk, failing)
        ps == StorageReadKey(st, params_key, failing)
    IN  IF ~ml.ok THEN [out |-> ml, reads |-> <<mlk>>]
        ELSE IF ~tl.ok THEN [out |-> tl, reads |-> <<mlk, tlk>>]
        ELSE IF ~ps.ok THEN [out |-> ps, reads |-> <<mlk, tlk, params_key>>]
        ELSE IF ~ps.val.some
        THEN [out |-> Panic, reads |-> <<mlk, tlk, params_key>>]
        ELSE [out |-> Ok(<<UnwrapOr(ml.val, ps.val.val.default_mint_limit),
                           UnwrapOr(tl.val,
                                    ps.val.val.default_per_epoch_throughput_limit)>>),
              reads |-> <<mlk, tlk, params_key>>]

\* get_limits(storage, token): the result and the keys read, in order; the
\* reads of the keys in failing return a storage error
get_limits(st, token, failing) ==
    LET mlk == mint_limit_key(token)
        tlk == throughput_limit_key(token)
        ml == StorageReadKey(st, mlk, failing)
        tl == StorageReadKey(st, tlk, failing)
        ps == StorageReadKey(st, params_key, failing)
    IN  IF ~ml.ok THEN [out |-> ml, reads |-> <<mlk>>]
        ELSE IF ~tl.ok THEN [out |-> tl, reads |-> <<mlk, tlk>>]
        ELSE IF ml.val.some /\ tl.val.some
        THEN [out |-> Ok(<<ml.val.val, tl.val.val>>), reads |-> <<mlk, tlk>>]
        ELSE IF ~ps.ok THEN [out |-> ps, reads |-> <<mlk, tlk, params_key>>]
        ELSE IF ~ps.val.some
        THEN [out |-> Panic,
              reads |-> <<mlk, tlk, params_key>>]
        ELSE [out |-> Ok(<<UnwrapOr(ml.val, ps.val.val.default_mint_limit),
                           UnwrapOr(tl.val,
                                    ps.val.val.default_per_epoch_throughput_limit)>>),
              reads |-> <<mlk, tlk, params_key>>]

\* StorageWrite::write, by the governance of the chain
Write(k, v) ==
    /\ storage' = [x \in DOMAIN storage \cup {k} |->
                      IF x = k THEN v ELSE storage[x]]
    /\ limits' = NoResult
    /\ UNCHANGED <<balances, events, pc, call, mutations, returns>>
    /\ UNCHANGED codecVars

WriteParams == \E ps \in IbcParameters : Write(params_key, ps)

WriteMintLimit ==
    \E t \in Tokens, v \in LimitValues : Write(mint_limit_key(t), v)

WriteThroughputLimit ==
    \E t \in Tokens, v \in LimitValues : Write(throughput_limit_key(t), v)

\* the keys get_limits may read
LimitKeys ==
    {params_key} \cup {mint_limit_key(t) : t \in Tokens}
                 \cup {throughput_limit_key(t) : t \in Tokens}

\* the sets of keys whose reads fail during one call: none, one or two keys
FailingSets == {f \in SUBSET LimitKeys : Cardinality(f) <= 2}

\* a get_limits call, all of whose reads succeed or some of whose reads fail
GetLimits ==
    /\ limits = NoResult
    /\ \E t \in Tokens, failing \in FailingSets :
         LET got == get_limits(storage, t, failing)
         IN  limits' = [token |-> t, failing |-> failing,
                        out |-> got.out, reads |-> got.reads,
                        before |-> storage]
    /\ UNCHANGED <<storage, balances, events, pc, call, mutations, returns>>
    /\ UNCHANGED codecVars

LimitsInit == CodecInit /\ LedgerIdle

LimitsNext ==
    \/ WriteParams
    \/ WriteMintLimit
    \/ WriteThroughputLimit
    \/ GetLimits

LimitsSpec == LimitsInit /\ [][LimitsNext]_vars

-----------------------------------------------------------------------------
(* Properties of the limits *)

Called == limits # NoResult

Stored(k) == k \in DOMAIN limits.before

\* C5: when the parameters are stored and no read fails, get_limits(token)
\* returns (m, t): m the stored mint limit of the token if present and
\* otherwise the default mint limit, t the stored throughput limit of the
\* token if present and otherwise the default per-epoch throughput limit,
\* each resolved on its own
C5_LimitFallback ==
    (Called /\ Stored(params_key) /\ limits.failing = {}) =>
        LET st == limits.before
            mlk == mint_limit_key(limits.token)
            tlk == throughput_limit_key(limits.token)
            m == IF Stored(mlk) THEN st[mlk]
                 ELSE st[params_key].default_mint_limit
            t == IF Stored(tlk) THEN st[tlk]
                 ELSE st[params_key].default_per_epoch_throughput_limit
        IN  limits.out = Ok(<<m, t>>)

\* only the mint limit of the token is stored: the stored mint limit and the
\* default throughput limit are returned, which differ from the other default
\* and from each other
C5_Witness ==
    /\ Called
    /\ Stored(params_key)
    /\ limits.failing = {}
    /\ Stored(mint_limit_key(limits.token))
    /\ ~Stored(throughput_limit_key(limits.token))
    /\ limits.before[params_key] =
           [default_mint_limit |-> 1, default_per_epoch_throughput_limit |-> 2]
    /\ limits.out = Ok(<<2, 2>>)

\* the keys get_limits may read for a token, in the order of the code
ReadOrder(token) ==
    <<mint_limit_key(token), throughput_limit_key(token), params_key>>

\* C12: get_limits only reads, so the store after the call is the store before
\* it; its reads are a beginning of (mint-limit key, throughput-limit key,
\* params_key), the mint-limit key always first; a failing read is the last
\* read and its storage error is the result, so the error returned is that of
\* the first failing read; when both overrides are stored and read, they are
\* returned without a read of params_key, whether or not the parameters are
\* stored or readable; when an override is absent, params_key is read, and if
\* the parameters are not stored the call returns no value: it aborts, unless
\* the read of params_key itself fails with a storage error
C12_LimitReads ==
    Called =>
        LET st == limits.before
            f == limits.failing
            r == limits.reads
            order == ReadOrder(limits.token)
            mlk == order[1]
            tlk == order[2]
            both == Stored(mlk) /\ Stored(tlk)
            failed == {i \in 1..Len(r) : r[i] \in f}
        IN  /\ storage = st
            /\ Len(r) \in 1..3
            /\ r = SubSeq(order, 1, Len(r))
            /\ failed # {} => /\ failed = {Len(r)}
                              /\ limits.out = StorageError(r[Len(r)])
            /\ failed = {} => /\ Len(r) >= 2
                              /\ limits.out \in {Panic} \cup
                                     {Ok(<<m, t>>) : m, t \in LimitValues}
            /\ (failed = {} /\ both) =>
                   /\ r = <<mlk, tlk>>
                   /\ limits.out = Ok(<<st[mlk], st[tlk]>>)
            /\ (mlk \notin f /\ tlk \notin f /\ ~both) =>
                   /\ r = order
                   /\ ~Stored(params_key) => ~limits.out.ok
                   /\ (~Stored(params_key) /\ params_key \notin f) =>
                          limits.out = Panic

\* both overrides of the token are stored, the parameters are not, and a read
\* of params_key would fail: the call returns the two overrides after two reads
C12_Witness ==
    /\ Called
    /\ ~Stored(params_key)
    /\ limits.failing = {params_key}
    /\ limits.reads = <<mint_limit_key(limits.token),
                        throughput_limit_key(limits.token)>>
    /\ limits.out = Ok(<<1, 2>>)

====
